---- MODULE Spec2Model ----
\* Model of aws-unused-analyzer: MetaData::analyze (src/src/analyzer.rs) and the
\* age predicates of src/src/finding.rs.
\*
\* Time is counted in whole days since the Unix epoch, so Duration::days(n) is n.
\* Option<T> is a sequence of length at most one: None is <<>>, Some(x) is <<x>>.
\* The fields Finding.id (a fresh uuid) and Finding.resource_owner_account (the
\* same string in every Finding) take no part in any decision and are left out.
EXTENDS Integers, Sequences, FiniteSets, TLC

VARIABLES
    entry,              \* the function the run enters: "analyze", "analyze_user", "analyze_role", "get_last_accessed"
    scope,              \* which provider answers are drawn from their full domains
    pc,                 \* position of the single flow of control
    unused_access_age,  \* MetaData.unused_access_age
    clock,              \* the last reading of OffsetDateTime::now_utc()
    now,                \* analyze_account's `now`
    users,              \* analyze_account's `users` vector, then what `for user in users` has left
    roles,              \* analyze_account's `roles` vector, then what `for role in roles` has left
    next_marker,        \* the pagination loop's `next_marker`
    result,             \* analyze_account's `result` vector
    identity,           \* the `user` / `role` argument of analyze_user / analyze_role
    inow,               \* analyze_user's / analyze_role's `now`
    iresult,            \* analyze_user's / analyze_role's `result` vector
    access_keys,        \* analyze_user's `access_keys`, then what the for loop has left
    polls,              \* get_last_accessed: status fetches issued for the current job
    services,           \* the Vec<ServiceLastAccessed> get_last_accessed returned
    outcome,            \* what the entered function returned
    \* history of the run, read by the properties only
    pages,              \* the list calls of the enumeration in progress: marker sent, page received
    login,              \* how GetLoginProfile has just answered
    waits,              \* 3-second sleeps taken for the current job
    statuses,           \* how many reports of each job status the current job has given
    report,             \* the last answer of GetServiceLastAccessedDetails
    failed,             \* a provider call failed, or the job protocol did (no job id, timeout)
    called,             \* identities for which analyze_user / analyze_role issued a call
    listed              \* arn, path and create_date of the identities the list calls returned

vars == <<entry, scope, pc, unused_access_age, clock, now, users, roles, next_marker, result,
          identity, inow, iresult, access_keys, polls, services, outcome,
          pages, login, waits, statuses, report, failed, called, listed>>

None == <<>>
Some(x) == <<x>>
is_some(o) == o # <<>>
unwrap(o) == o[1]

-----------------------------------------------------------------------------
\* Bounds of the model and program constants

Now0 == 20000           \* the day analyze_account reads `now`
MaxTicks == 1           \* days the clock may advance during the run
MaxPages == 2           \* pages a list call may take
MaxPageLen == 1         \* identities on one page
MaxIdentities == 2      \* users and roles in the account
MaxKeys == 2            \* access keys of one user
MaxServices == 2        \* service records of one job
MaxActions == 1         \* tracked actions of one service record

DefaultAge == 90        \* default_value of --unused-access-age
MaxAttempts == 10       \* for _ in 0..10
MaxUnixDay == 2932896   \* 9999-12-31, the last day time::OffsetDateTime represents
MinUnixDay == -4371587  \* -9999-01-01, the first

-----------------------------------------------------------------------------
\* Provider answers the model draws from

AtAge == Now0 - DefaultAge      \* exactly DefaultAge days before Now0
Recent == AtAge + 1             \* one day less than that
TooLate == MaxUnixDay + 1       \* a day OffsetDateTime::from_unix_timestamp refuses

\* Every run draws the answers in its scope from their full domains and the others
\* from a few. 0 is the epoch, which is also a long time ago.
Full(what) == what \in scope

\* password_last_used, AccessKeyLastUsed.last_used_date, RoleLastUsed.last_used_date
SignalDates == IF Full("credentials") THEN {0, AtAge, Recent, TooLate} ELSE {Now0}
\* LoginProfile.create_date, AccessKeyMetadata.create_date
CredentialDates == IF Full("credentials") THEN {0, AtAge, TooLate} ELSE {0}
\* User.create_date, Role.create_date
IdentityDates == IF Full("identities") THEN {AtAge, Recent} ELSE {AtAge}
\* ServiceLastAccessed.last_authenticated, TrackedActionLastAccessed.last_accessed_time
ServiceDates == IF Full("services") THEN {AtAge} ELSE {Now0}
\* Role.path
Paths == IF Full("identities") THEN {"/", "/aws-service-role/"} ELSE {"/"}

Opt(S) == {None} \cup {Some(x) : x \in S}

\* aws_sdk_iam::types::TrackedActionLastAccessed, the i-th one named i
TrackedActions(n) ==
    {[i \in 1..n |-> [action_name |-> Some(i), last_accessed_time |-> f[i]]] :
        f \in [1..n -> Opt(ServiceDates)]}

\* aws_sdk_iam::types::ServiceLastAccessed, the i-th one of namespace i
ServiceRecord(i) ==
    [service_namespace : {i}, last_authenticated : Opt(ServiceDates),
     tracked_actions_last_accessed :
        IF Full("services") THEN Opt(UNION {TrackedActions(n) : n \in 0..MaxActions})
                            ELSE {None}]
ServiceLists ==
    UNION {{s \in [1..n -> UNION {ServiceRecord(i) : i \in 1..n}] :
                \A i \in 1..n : s[i].service_namespace = i} :
           n \in 0..(IF Full("services") THEN MaxServices ELSE 1)}

\* aws_sdk_iam::types::AccessKeyMetadata, the i-th one with id i
AccessKey(i) ==
    [access_key_id : IF Full("credentials") THEN {None, Some(i)} ELSE {Some(i)},
     create_date : Opt(CredentialDates)]
AccessKeyLists ==
    UNION {{s \in [1..n -> UNION {AccessKey(i) : i \in 1..n}] :
                \A i \in 1..n : s[i].access_key_id \in {None, Some(i)}} :
           n \in 0..(IF Full("credentials") THEN MaxKeys ELSE 1)}

\* aws_sdk_iam::types::User; the ARN stands for the user name too
User(n) == [kind : {"user"}, arn : {<<"user", n>>}, path : {"/"},
            create_date : IdentityDates, password_last_used : Opt(SignalDates)]

\* aws_sdk_iam::types::Role with its Option<RoleLastUsed>
Role(n) == [kind : {"role"}, arn : {<<"role", n>>}, path : Paths,
            create_date : IdentityDates,
            role_last_used : Opt([last_used_date : Opt(SignalDates)])]

\* one page of ListUsers / ListRoles that follows `n` identities of that kind
Min(a, b) == IF a < b THEN a ELSE b
Identity(kind, n) == IF kind = "user" THEN User(n) ELSE Role(n)
Pages(kind, n, last) ==
    {[items |-> it, is_truncated |-> tr, marker |-> mk] :
        it \in UNION {{s \in [1..k -> UNION {Identity(kind, n + i) : i \in 1..k}] :
                           \A i \in 1..k : s[i].arn[2] = n + i} :
                      k \in 0..Min(MaxPageLen, MaxIdentities - Cardinality(listed))},
        tr \in IF last THEN {FALSE} ELSE BOOLEAN,
        mk \in {None, Some(Len(pages) + 1)}}

-----------------------------------------------------------------------------
\* src/src/finding.rs and the age predicate of src/src/analyzer.rs

\* OffsetDateTime::from_unix_timestamp(..).is_ok()
from_unix_timestamp_ok(secs) == secs \in MinUnixDay..MaxUnixDay

duration_gt_age(last_accessed, analyzed_at, age) ==
    IF last_accessed = None
    THEN TRUE
    ELSE /\ from_unix_timestamp_ok(unwrap(last_accessed))
         /\ analyzed_at - unwrap(last_accessed) > age

\* Option<LastAccessedDetail>: None, or Some(the Option<DateTime> given)
check_last_accessed_detail(analyzed_at, age, last_used_at) ==
    IF /\ is_some(last_used_at)
       /\ from_unix_timestamp_ok(unwrap(last_used_at))
       /\ analyzed_at - unwrap(last_used_at) < age
    THEN None
    ELSE Some(last_used_at)

\* impl From<TrackedActionLastAccessed> for UnusedAction
UnusedActionFrom(value) ==
    [action |-> IF is_some(value.action_name) THEN unwrap(value.action_name) ELSE 0,
     last_accessed |-> value.last_accessed_time]

\* impl From<ServiceLastAccessed> for UnusedPermissionDetails
UnusedPermissionDetailsFrom(value) ==
    [kind |-> "UnusedPermissionDetails",
     actions |-> IF is_some(value.tracked_actions_last_accessed)
                 THEN LET a == unwrap(value.tracked_actions_last_accessed)
                      IN  Some([i \in 1..Len(a) |-> UnusedActionFrom(a[i])])
                 ELSE None,
     service_namespace |-> value.service_namespace,
     last_accessed |-> value.last_authenticated]

\* a variant that looks at the service-level timestamp alone
any_not_used_service_only(details, analyzed_at, age) ==
    duration_gt_age(details.last_accessed, analyzed_at, age)

any_not_used(details, analyzed_at, age) ==
    \/ duration_gt_age(details.last_accessed, analyzed_at, age)
    \/ /\ is_some(details.actions)
       /\ \E i \in 1..Len(unwrap(details.actions)) :
              duration_gt_age(unwrap(details.actions)[i].last_accessed, analyzed_at, age)

\* analyze_user and analyze_role call details.all_used(..), which finding.rs does
\* not define: the complement of any_not_used, as the kept-record rule requires.
all_used(details, analyzed_at, age) == ~any_not_used(details, analyzed_at, age)

\* a variant whose cutoff is one day short
created_within_age_day_short(create_date, at, age) ==
    /\ from_unix_timestamp_ok(create_date)
    /\ at - create_date < age - 1

\* the `is_ok_and(|created| now - created < Duration::days(age))` of the two for loops
created_within_age(create_date, at, age) ==
    /\ from_unix_timestamp_ok(create_date)
    /\ at - create_date < age

\* the `is_ok_and(|created| now - created > Duration::days(age))` of analyze_user
created_before_age(create_date, at, age) ==
    /\ from_unix_timestamp_ok(create_date)
    /\ at - create_date > age

Finding(id, type, details) ==
    [resource |-> id.arn,
     resource_type |-> IF id.kind = "role" THEN "AwsIamRole" ELSE "AwsIamUser",
     finding_details |-> details,
     finding_type |-> type]

\* the filter_map of analyze_user / analyze_role, then the push of the Finding
unused_permission_details(svcs, analyzed_at, age) ==
    LET details == [i \in 1..Len(svcs) |-> UnusedPermissionDetailsFrom(svcs[i])]
        keep(d) == ~all_used(d, analyzed_at, age)
    IN  SelectSeq(details, keep)

PermissionFindings(id, svcs, analyzed_at, age) ==
    LET details == unused_permission_details(svcs, analyzed_at, age)
    IN  IF details # <<>> THEN <<Finding(id, "UnusedPermission", details)>> ELSE <<>>

-----------------------------------------------------------------------------
\* Results and returns

Ok(v) == [kind |-> "ok", value |-> v, error |-> ""]
Err(msg) == [kind |-> "err", value |-> <<>>, error |-> msg]
Running == [kind |-> "none", value |-> <<>>, error |-> ""]
NoReport == [job_status |-> "", services_last_accessed |-> <<>>]
NoStatuses == [s \in {"InProgress", "Completed", "Failed"} |-> 0]
Counted(status) == [statuses EXCEPT ![status] = @ + 1]

confVars == <<entry, scope, unused_access_age, now>>
acctVars == <<users, roles, next_marker, result, pages, listed>>
idVars == <<identity, inow, iresult, access_keys, login>>
jobVars == <<polls, waits, statuses, report, services>>

Account == entry = "analyze"
NoIdentity == [kind |-> "none", arn |-> <<"none", 0>>]

\* a variant that hands back the findings collected so far with the error
Raise_partial(msg) ==
    /\ pc' = "done"
    /\ outcome' = [Err(msg) EXCEPT !.value = result]

\* `?` on an Err: every caller up to the entered function returns the error
Raise(msg) ==
    /\ pc' = "done"
    /\ outcome' = Err(msg)

\* the history of a job is kept for the run of get_last_accessed itself
Kept(old, new) == IF entry = "get_last_accessed" THEN new ELSE old

\* OffsetDateTime::now_utc(): no earlier than the reading before
NowUtc == clock..(Now0 + MaxTicks)

-----------------------------------------------------------------------------
\* MetaData::get_last_accessed

\* generate_service_last_accessed_details().arn(arn).send().await?.job_id.ok_or(..)?
GenerateServiceLastAccessedDetails ==
    /\ pc = "gla_submit"
    /\ called' = called \cup {identity.arn}
    /\ \/ /\ failed' = TRUE /\ Raise("GenerateServiceLastAccessedDetails")
          /\ UNCHANGED <<polls, waits, statuses, report>>
       \/ /\ failed' = TRUE /\ Raise("without job id while get last accessed details")
          /\ UNCHANGED <<polls, waits, statuses, report>>
       \/ /\ pc' = "gla_loop"
          /\ polls' = 0
          /\ waits' = 0
          /\ statuses' = NoStatuses
          /\ report' = NoReport
          /\ UNCHANGED <<outcome, failed>>
    /\ UNCHANGED <<confVars, clock, acctVars, idVars, services>>

\* a variant whose loop admits one attempt more
PollWait_one_more ==
    /\ pc = "gla_loop"
    /\ polls <= MaxAttempts
    /\ waits' = waits + 1
    /\ pc' = "gla_poll"
    /\ UNCHANGED <<confVars, clock, acctVars, idVars, polls, statuses, report, services,
                   outcome, failed, called>>

\* for _ in 0..10 { tokio::time::sleep(Duration::from_secs(3)).await; ..
PollWait ==
    /\ pc = "gla_loop"
    /\ polls < MaxAttempts
    /\ waits' = waits + 1
    /\ pc' = "gla_poll"
    /\ UNCHANGED <<confVars, clock, acctVars, idVars, polls, statuses, report, services,
                   outcome, failed, called>>

\* the loop is exhausted: Err(anyhow!("timeout"))?
PollTimeout ==
    /\ pc = "gla_loop"
    /\ polls >= MaxAttempts
    /\ failed' = TRUE /\ Raise("timeout")
    /\ UNCHANGED <<confVars, clock, acctVars, idVars, jobVars, called>>

\* return Ok(report.services_last_accessed): to the caller, whose frame goes on
\* without the locals of get_last_accessed
ReturnServices(svcs) ==
    /\ services' = svcs
    /\ IF entry = "get_last_accessed"
       THEN /\ pc' = "done"
            /\ outcome' = Ok(svcs)
            /\ polls' = polls + 1
            /\ statuses' = Counted("Completed")
            /\ report' = [job_status |-> "Completed", services_last_accessed |-> svcs]
            /\ UNCHANGED waits
       ELSE /\ pc' = IF identity.kind = "user" THEN "au_permissions" ELSE "ar_permissions"
            /\ polls' = 0
            /\ waits' = 0
            /\ statuses' = NoStatuses
            /\ report' = NoReport
            /\ UNCHANGED outcome

\* a report whose job_status does not end the loop
KeepPolling(status) ==
    /\ pc' = "gla_loop"
    /\ polls' = polls + 1
    /\ statuses' = Kept(statuses, Counted(status))
    /\ report' = Kept(report, [job_status |-> status, services_last_accessed |-> <<>>])
    /\ UNCHANGED <<waits, services, outcome, failed>>

\* get_service_last_accessed_details().job_id(&job_id).send().await? and the match
GetServiceLastAccessedDetails ==
    /\ pc = "gla_poll"
    /\ \/ /\ failed' = TRUE /\ Raise("GetServiceLastAccessedDetails")
          /\ polls' = polls + 1
          /\ UNCHANGED <<waits, statuses, report, services>>
       \/ \E svcs \in ServiceLists :      \* JobStatusType::Completed => return Ok(..)
             /\ ReturnServices(svcs)
             /\ UNCHANGED failed
       \/ KeepPolling("InProgress")       \* JobStatusType::InProgress => {}
       \/ KeepPolling("Failed")           \* status => { anyhow::anyhow!("job status invalid?"); }
    /\ UNCHANGED <<confVars, clock, acctVars, idVars, called>>

NextJob ==
    \/ GenerateServiceLastAccessedDetails
    \/ PollWait
    \/ PollTimeout
    \/ GetServiceLastAccessedDetails

-----------------------------------------------------------------------------
\* MetaData::analyze_user

\* return Ok(result) of analyze_user / analyze_role: to the for loop of
\* analyze_account, which appends it, or out of the entered function
ReturnFindings(findings) ==
    /\ iresult' = findings
    /\ IF Account
       THEN /\ result' = result \o findings
            /\ pc' = IF identity.kind = "user" THEN "user_loop" ELSE "role_loop"
            /\ identity' = NoIdentity
            /\ UNCHANGED outcome
       ELSE /\ pc' = "done"
            /\ outcome' = Ok(findings)
            /\ UNCHANGED <<result, identity>>

\* the password check that follows get_login_profile
PasswordFindings(login_profile) ==
    IF /\ is_some(login_profile)
       /\ created_before_age(unwrap(login_profile).create_date, inow, unused_access_age)
    THEN LET detail == check_last_accessed_detail(inow, unused_access_age,
                                                  identity.password_last_used)
         IN  IF is_some(detail)
             THEN <<Finding(identity, "UnusedIamUserPassword",
                            <<[kind |-> "UnusedIamUserPasswordDetails",
                               last_accessed |-> unwrap(detail)]>>)>>
             ELSE <<>>
    ELSE <<>>

\* get_login_profile().user_name(..).send().await and the password check
GetLoginProfile ==
    /\ pc = "au_login"
    /\ called' = called \cup {identity.arn}
    /\ \/ /\ failed' = TRUE /\ Raise("GetLoginProfile")               \* Err(e) => return Err(e)?
          /\ UNCHANGED <<iresult, login>>
       \/ /\ login' = "NoSuchEntity"                \* Err(e) if no such entity => None
          /\ iresult' = iresult \o PasswordFindings(None)
          /\ pc' = "au_list_keys"
          /\ UNCHANGED <<outcome, failed>>
       \/ \E profile \in Opt([create_date : CredentialDates]) :   \* Ok(resp) => resp.login_profile
             /\ login' = "Ok"
             /\ iresult' = iresult \o PasswordFindings(profile)
             /\ pc' = "au_list_keys"
             /\ UNCHANGED <<outcome, failed>>
    /\ UNCHANGED <<confVars, clock, acctVars, identity, inow, access_keys, jobVars>>

\* list_access_keys().user_name(..).send().await?.access_key_metadata
ListAccessKeys ==
    /\ pc = "au_list_keys"
    /\ called' = called \cup {identity.arn}
    /\ login' = "none"
    /\ \/ /\ failed' = TRUE /\ Raise("ListAccessKeys")
          /\ UNCHANGED access_keys
       \/ \E keys \in AccessKeyLists :
             /\ access_keys' = keys
             /\ pc' = "au_key_loop"
             /\ UNCHANGED <<outcome, failed>>
    /\ UNCHANGED <<confVars, clock, acctVars, identity, inow, iresult, jobVars>>

\* the two conditions under which the loop body asks for the key's last use
key_is_checked(access_key) ==
    /\ is_some(access_key.create_date)
    /\ created_before_age(unwrap(access_key.create_date), inow, unused_access_age)
    /\ is_some(access_key.access_key_id)

\* for access_key in access_keys: a key that is not asked about
AccessKeySkip ==
    /\ pc = "au_key_loop"
    /\ access_keys # <<>>
    /\ ~key_is_checked(Head(access_keys))
    /\ access_keys' = Tail(access_keys)
    /\ UNCHANGED <<confVars, pc, clock, acctVars, identity, inow, iresult, login, jobVars,
                   outcome, failed, called>>

\* the Finding pushed for one access key
AccessKeyFindings(access_key, access_key_last_used) ==
    LET last_used_at == IF is_some(access_key_last_used)
                        THEN Some(unwrap(access_key_last_used).last_used_date)
                        ELSE None
        detail == check_last_accessed_detail(inow, unused_access_age, last_used_at)
    IN  IF is_some(detail)
        THEN <<Finding(identity, "UnusedIamUserAccessKey",
                       <<[kind |-> "UnusedIamUserAccessKeyDetails",
                          last_accessed |-> unwrap(detail),
                          access_key_id |-> unwrap(access_key.access_key_id)]>>)>>
        ELSE <<>>

\* get_access_key_last_used().access_key_id(..).send().await? and the push
GetAccessKeyLastUsed ==
    /\ pc = "au_key_loop"
    /\ access_keys # <<>>
    /\ key_is_checked(Head(access_keys))
    /\ called' = called \cup {identity.arn}
    /\ \/ /\ failed' = TRUE /\ Raise("GetAccessKeyLastUsed")
          /\ UNCHANGED <<iresult, access_keys>>
       \/ \E last_used \in Opt([last_used_date : SignalDates]) :
             /\ iresult' = iresult \o AccessKeyFindings(Head(access_keys), last_used)
             /\ access_keys' = Tail(access_keys)
             /\ UNCHANGED <<pc, outcome, failed>>
    /\ UNCHANGED <<confVars, clock, acctVars, identity, inow, login, jobVars>>

\* the for loop is over: self.get_last_accessed(iam_client, &user.arn)
AccessKeysDone ==
    /\ pc = "au_key_loop"
    /\ access_keys = <<>>
    /\ pc' = "gla_submit"
    /\ UNCHANGED <<confVars, clock, acctVars, idVars, jobVars, outcome, failed,
                   called>>

\* the filter_map over the job's records, the push and Ok(result)
UserPermissions ==
    /\ pc = "au_permissions"
    /\ ReturnFindings(iresult \o PermissionFindings(identity, services, inow,
                                                    unused_access_age))
    /\ services' = <<>>
    /\ UNCHANGED <<confVars, clock, users, roles, next_marker, pages, listed,
                   inow, access_keys, login, polls, waits, statuses, report,
                   failed, called>>

NextUser ==
    \/ GetLoginProfile
    \/ ListAccessKeys
    \/ AccessKeySkip
    \/ GetAccessKeyLastUsed
    \/ AccessKeysDone
    \/ UserPermissions

-----------------------------------------------------------------------------
\* MetaData::analyze_role

\* role.role_last_used.and_then(|last_used| last_used.last_used_date)
role_last_used_date(role) ==
    IF is_some(role.role_last_used) THEN unwrap(role.role_last_used).last_used_date ELSE None

RoleFindings(role) ==
    LET detail == check_last_accessed_detail(inow, unused_access_age,
                                             role_last_used_date(role))
    IN  IF is_some(detail)
        THEN <<Finding(role, "UnusedIamRole",
                       <<[kind |-> "UnusedIamRoleDetails", last_accessed |-> unwrap(detail)]>>)>>
        ELSE <<>>

\* the role-usage check, then self.get_last_accessed(iam_client, &role.arn)
RoleLastUsed ==
    /\ pc = "ar_last_used"
    /\ iresult' = iresult \o RoleFindings(identity)
    /\ pc' = "gla_submit"
    /\ UNCHANGED <<confVars, clock, acctVars, identity, inow, access_keys, login, jobVars,
                   outcome, failed, called>>

RolePermissions ==
    /\ pc = "ar_permissions"
    /\ ReturnFindings(iresult \o PermissionFindings(identity, services, inow,
                                                    unused_access_age))
    /\ services' = <<>>
    /\ UNCHANGED <<confVars, clock, users, roles, next_marker, pages, listed,
                   inow, access_keys, login, polls, waits, statuses, report,
                   failed, called>>

NextRole ==
    \/ RoleLastUsed
    \/ RolePermissions

NextIdentity == NextUser \/ NextRole \/ NextJob

-----------------------------------------------------------------------------
\* MetaData::analyze_account

\* what the history keeps of a listed identity
Listing(id) == [arn |-> id.arn, path |-> id.path, create_date |-> id.create_date]

\* one answer of the list call added to the history
Logged(page) ==
    Append(pages, [sent |-> next_marker, items |-> page.items,
                   is_truncated |-> page.is_truncated, marker |-> page.marker])

\* a variant that does not carry the marker of a truncated page to the next call
ListUsers_marker_dropped ==
    /\ pc = "list_users"
    /\ \/ /\ failed' = TRUE /\ Raise("ListUsers")
          /\ UNCHANGED <<users, next_marker, pages, listed>>
       \/ \E page \in Pages("user", Len(users), Len(pages) + 1 >= MaxPages) :
             /\ users' = users \o page.items
             /\ pages' = Logged(page)
             /\ listed' = listed \cup {Listing(page.items[i]) : i \in 1..Len(page.items)}
             /\ IF page.is_truncated
                THEN UNCHANGED <<pc, next_marker>>
                ELSE pc' = "user_loop" /\ UNCHANGED next_marker
             /\ UNCHANGED <<outcome, failed>>
    /\ UNCHANGED <<confVars, clock, roles, result, idVars, jobVars, called>>

\* the loop around list_users().set_marker(next_marker).send().await?
ListUsers ==
    /\ pc = "list_users"
    /\ \/ /\ failed' = TRUE /\ Raise("ListUsers")
          /\ UNCHANGED <<users, next_marker, pages, listed>>
       \/ \E page \in Pages("user", Len(users), Len(pages) + 1 >= MaxPages) :
             /\ users' = users \o page.items
             /\ pages' = Logged(page)
             /\ listed' = listed \cup {Listing(page.items[i]) : i \in 1..Len(page.items)}
             /\ IF page.is_truncated
                THEN next_marker' = page.marker /\ UNCHANGED pc
                ELSE pc' = "user_loop" /\ UNCHANGED next_marker
             /\ UNCHANGED <<outcome, failed>>
    /\ UNCHANGED <<confVars, clock, roles, result, idVars, jobVars, called>>

\* for user in users: a user created less than the age ago
UserSkip ==
    /\ pc = "user_loop"
    /\ users # <<>>
    /\ created_within_age(Head(users).create_date, now, unused_access_age)
    /\ users' = Tail(users)
    /\ pages' = <<>>
    /\ UNCHANGED <<confVars, pc, clock, roles, next_marker, result, listed, idVars,
                   jobVars, outcome, failed, called>>

\* self.analyze_user(iam_client, user), which reads its own `now`
UserAnalyze ==
    /\ pc = "user_loop"
    /\ users # <<>>
    /\ ~created_within_age(Head(users).create_date, now, unused_access_age)
    /\ identity' = Head(users)
    /\ users' = Tail(users)
    /\ \E t \in NowUtc : inow' = t /\ clock' = t
    /\ iresult' = <<>>
    /\ access_keys' = <<>>
    /\ login' = "none"
    /\ pc' = "au_login"
    /\ pages' = <<>>
    /\ UNCHANGED <<confVars, roles, next_marker, result, listed, jobVars, outcome,
                   failed, called>>

\* the users are done: the block that lists the roles starts with next_marker = None
UsersDone ==
    /\ pc = "user_loop"
    /\ users = <<>>
    /\ next_marker' = None
    /\ pages' = <<>>
    /\ pc' = "list_roles"
    /\ UNCHANGED <<confVars, clock, users, roles, result, listed, idVars, jobVars,
                   outcome, failed, called>>

\* the loop around list_roles().set_marker(next_marker).send().await?
ListRoles ==
    /\ pc = "list_roles"
    /\ \/ /\ failed' = TRUE /\ Raise("ListRoles")
          /\ UNCHANGED <<roles, next_marker, pages, listed>>
       \/ \E page \in Pages("role", Len(roles), Len(pages) + 1 >= MaxPages) :
             /\ roles' = roles \o page.items
             /\ pages' = Logged(page)
             /\ listed' = listed \cup {Listing(page.items[i]) : i \in 1..Len(page.items)}
             /\ IF page.is_truncated
                THEN next_marker' = page.marker /\ UNCHANGED pc
                ELSE pc' = "role_loop" /\ UNCHANGED next_marker
             /\ UNCHANGED <<outcome, failed>>
    /\ UNCHANGED <<confVars, clock, users, result, idVars, jobVars, called>>

\* for role in roles: a role created less than the age ago
RoleSkip ==
    /\ pc = "role_loop"
    /\ roles # <<>>
    /\ created_within_age(Head(roles).create_date, now, unused_access_age)
    /\ roles' = Tail(roles)
    /\ pages' = <<>>
    /\ UNCHANGED <<confVars, pc, clock, users, next_marker, result, listed, idVars,
                   jobVars, outcome, failed, called>>

\* self.analyze_role(iam_client, role), which reads its own `now`
RoleAnalyze ==
    /\ pc = "role_loop"
    /\ roles # <<>>
    /\ ~created_within_age(Head(roles).create_date, now, unused_access_age)
    /\ identity' = Head(roles)
    /\ roles' = Tail(roles)
    /\ \E t \in NowUtc : inow' = t /\ clock' = t
    /\ iresult' = <<>>
    /\ pc' = "ar_last_used"
    /\ pages' = <<>>
    /\ UNCHANGED <<confVars, users, next_marker, result, listed, access_keys, login,
                   jobVars, outcome, failed, called>>

\* Ok(result)
RolesDone ==
    /\ pc = "role_loop"
    /\ roles = <<>>
    /\ pc' = "done"
    /\ outcome' = Ok(result)
    /\ pages' = <<>>
    /\ UNCHANGED <<confVars, clock, users, roles, next_marker, result, listed, idVars,
                   jobVars, failed, called>>

NextAccount ==
    \/ ListUsers
    \/ UserSkip
    \/ UserAnalyze
    \/ UsersDone
    \/ ListRoles
    \/ RoleSkip
    \/ RoleAnalyze
    \/ RolesDone

Next == NextAccount \/ NextIdentity

-----------------------------------------------------------------------------
\* Initial states and specifications

InitShared ==
    /\ unused_access_age = DefaultAge
    /\ now = Now0
    /\ users = <<>>
    /\ roles = <<>>
    /\ next_marker = None
    /\ result = <<>>
    /\ iresult = <<>>
    /\ access_keys = <<>>
    /\ polls = 0
    /\ services = <<>>
    /\ outcome = Running
    /\ pages = <<>>
    /\ login = "none"
    /\ waits = 0
    /\ statuses = NoStatuses
    /\ report = NoReport
    /\ failed = FALSE
    /\ called = {}
    /\ listed = {}

\* MetaData::analyze, after `let now = ..; let mut result = vec![];`
Init ==
    /\ entry = "analyze"
    /\ scope = {"identities"}
    /\ pc = "list_users"
    /\ clock = Now0
    /\ inow = Now0
    /\ identity = NoIdentity
    /\ InitShared

\* analyze_user or analyze_role entered for one identity, after its first two lines
InitIdentity ==
    /\ identity \in IF entry = "analyze_user" THEN User(1) ELSE Role(1)
    /\ pc = IF entry = "analyze_user" THEN "au_login" ELSE "ar_last_used"
    /\ inow \in Now0..(Now0 + MaxTicks)
    /\ clock = inow
    /\ InitShared

\* analyze_user for every password and access-key answer
InitUser ==
    /\ entry = "analyze_user"
    /\ scope = {"credentials"}
    /\ InitIdentity

\* analyze_user and analyze_role for every answer of the access-advisor job
InitPermissions ==
    /\ entry \in {"analyze_user", "analyze_role"}
    /\ scope = {"services"}
    /\ InitIdentity

\* get_last_accessed entered for one ARN
InitJob ==
    /\ entry = "get_last_accessed"
    /\ scope = {"services"}
    /\ identity = [kind |-> "arn", arn |-> <<"arn", 1>>]
    /\ pc = "gla_submit"
    /\ clock = Now0
    /\ inow = Now0
    /\ InitShared

Spec == Init /\ [][Next]_vars
SpecUser == InitUser /\ [][NextUser \/ NextJob]_vars
SpecPermissions == InitPermissions /\ [][NextIdentity]_vars
SpecJob == InitJob /\ [][NextJob]_vars

-----------------------------------------------------------------------------
\* Properties

\* the age rule of the specification: unused iff absent or last used more than
\* `age` days before `at`
UnusedByRule(last_used, at, age) ==
    \/ last_used = None
    \/ at - unwrap(last_used) > age

FindingsOfType(findings, type) == {i \in DOMAIN findings : findings[i].finding_type = type}

\* C1: get_last_accessed issues at most 10 status polls, each preceded by exactly
\* one wait; when the job reports InProgress on the first k-1 polls and Completed
\* on poll k, it returns that report's records after exactly k polls; when the job
\* reports InProgress on all 10 polls it fails with "timeout" without an 11th poll.
C1_BoundedPolling ==
    /\ polls <= MaxAttempts
    /\ waits = IF pc = "gla_poll" THEN polls + 1 ELSE polls
    /\ (statuses["Completed"] = 1 /\ statuses["Failed"] = 0
            => /\ pc = "done"
               /\ outcome = Ok(report.services_last_accessed)
               /\ report.job_status = "Completed"
               /\ polls = statuses["InProgress"] + 1)
    /\ (statuses["InProgress"] = MaxAttempts
            => /\ polls = MaxAttempts
               /\ pc \in {"gla_loop", "done"}
               /\ (pc = "done" => outcome = Err("timeout")))

\* the job was in progress nine times and completed on the tenth poll with records
C1_Witness ==
    /\ entry = "get_last_accessed"
    /\ pc = "done"
    /\ statuses["InProgress"] = MaxAttempts - 1
    /\ statuses["Completed"] = 1
    /\ polls = MaxAttempts
    /\ outcome.kind = "ok"
    /\ Len(outcome.value) = MaxServices

\* C2: a poll whose job status is neither Completed nor InProgress ends the run of
\* get_last_accessed at once, with an error that is not the timeout error, and no
\* further poll is issued.
C2_FailedStatusIsTerminal ==
    statuses["Failed"] > 0
        => /\ pc = "done"
           /\ outcome.kind = "err"
           /\ outcome.error # "timeout"
           /\ statuses["Failed"] = 1
           /\ report.job_status = "Failed"

\* C3: every last-used signal is judged by the one age rule: a Finding for a
\* password, an access key or a role is there only when the signal is absent or
\* more than the age old, and the detail check_last_accessed_detail yields for a
\* password is one duration_gt_age is true of, for the same signal, instant and age.
C3_OneAgeRule ==
    /\ \A i \in DOMAIN iresult :
          iresult[i].finding_type \in
                {"UnusedIamUserPassword", "UnusedIamUserAccessKey", "UnusedIamRole"}
            => UnusedByRule(iresult[i].finding_details[1].last_accessed, inow,
                            unused_access_age)
    /\ pc = "au_list_keys" /\ login = "Ok"
            => (FindingsOfType(iresult, "UnusedIamUserPassword") # {}
                    => duration_gt_age(identity.password_last_used, inow,
                                       unused_access_age))

\* C4: a run of analyze returns the complete list of findings or an error with no
\* finding: the first failure of a provider call or of the job protocol ends the
\* run, nothing is analysed after it and the findings collected before it are not
\* returned; NoSuchEntity from GetLoginProfile alone is swallowed, gives no
\* password finding, and the access-key check of that user comes next.
C4_AllOrNothingState ==
    /\ failed => pc = "done" /\ outcome.kind = "err" /\ outcome.value = <<>>
    /\ outcome.kind = "err" => failed
    /\ outcome.kind = "ok"
            => /\ pc = "done"
               /\ outcome.value = result
               /\ users = <<>> /\ roles = <<>>
               /\ \A l \in listed :
                     now - l.create_date >= unused_access_age => l.arn \in called
    /\ login = "NoSuchEntity"
            => /\ pc = "au_list_keys"
               /\ FindingsOfType(iresult, "UnusedIamUserPassword") = {}
               /\ outcome = Running

C4_AllOrNothing ==
    /\ []C4_AllOrNothingState
    /\ [][failed => UNCHANGED <<called, result, outcome, pc>>]_vars

\* a later identity's call failed after an earlier identity had given findings
C4_Witness ==
    /\ entry = "analyze"
    /\ pc = "done"
    /\ failed
    /\ outcome.kind = "err"
    /\ result # <<>>
    /\ Cardinality(called) = 2

\* C5: analyze_user emits at most one Finding of type UnusedUserAccessKey for a
\* user, holding one detail per unused key.
C5_OneAccessKeyFinding ==
    /\ Cardinality(FindingsOfType(iresult, "UnusedIamUserAccessKey")) <= 1
    /\ (pc = "done" /\ outcome.kind = "ok"
            => Cardinality(FindingsOfType(outcome.value, "UnusedIamUserAccessKey")) <= 1)

\* C6: no Finding of analyze has as its resource a role whose path starts with
\* /aws-service-role/.
C6_NoServiceLinkedRole ==
    \A l \in listed :
        l.path = "/aws-service-role/"
            => /\ \A i \in DOMAIN result : result[i].resource # l.arn
               /\ l.arn \notin called

\* C7: an access key whose last use is the epoch-zero sentinel is reported with
\* last_accessed = none, never with the epoch-zero timestamp.
C7_EpochZeroIsAbsent ==
    \A i \in FindingsOfType(iresult, "UnusedIamUserAccessKey") :
        iresult[i].finding_details[1].last_accessed # Some(0)

\* C8: the permission step of analyze_user / analyze_role pushes an
\* UnusedPermission Finding iff some service record of the job is unused by the age
\* rule (its own timestamp, or that of one of its tracked actions); the Finding
\* holds one detail per unused record, in the job's order, none for a record all in
\* use, and so is never empty.
RecordUnusedByRule(r) ==
    \/ UnusedByRule(r.last_authenticated, inow, unused_access_age)
    \/ /\ is_some(r.tracked_actions_last_accessed)
       /\ \E i \in DOMAIN unwrap(r.tracked_actions_last_accessed) :
              UnusedByRule(unwrap(r.tracked_actions_last_accessed)[i].last_accessed_time,
                           inow, unused_access_age)

C8_PermissionStep ==
    pc \in {"au_permissions", "ar_permissions"}
        => LET kept == SelectSeq(services, RecordUnusedByRule)
           IN  IF kept = <<>>
               THEN iresult' = iresult
               ELSE /\ Len(iresult') = Len(iresult) + 1
                    /\ SubSeq(iresult', 1, Len(iresult)) = iresult
                    /\ LET f == iresult'[Len(iresult')]
                       IN  /\ f.finding_type = "UnusedPermission"
                           /\ f.resource = identity.arn
                           /\ Len(f.finding_details) = Len(kept)
                           /\ \A i \in DOMAIN kept :
                                /\ f.finding_details[i].service_namespace
                                        = kept[i].service_namespace
                                /\ f.finding_details[i].last_accessed
                                        = kept[i].last_authenticated

C8_UnusedPermission ==
    /\ [](\A i \in FindingsOfType(iresult, "UnusedPermission") :
              iresult[i].finding_details # <<>>)
    /\ [](pc = "done" /\ outcome.kind = "ok" => outcome.value = iresult)
    /\ [][C8_PermissionStep]_vars

\* the job gave two records, the first all in use and the second unused through a
\* tracked action alone: the user's Finding holds the second one only
C8_Witness ==
    /\ entry = "analyze_user"
    /\ pc = "done"
    /\ outcome.kind = "ok"
    /\ \E i \in FindingsOfType(outcome.value, "UnusedPermission") :
          LET d == outcome.value[i].finding_details
          IN  /\ Len(d) = 1
              /\ d[1].service_namespace = 2
              /\ d[1].last_accessed # None
              /\ inow - unwrap(d[1].last_accessed) = unused_access_age

\* C9: an identity created less than the age before analyze_account's `now` has no
\* Finding, and no call of analyze_user / analyze_role is issued for it.
C9_YoungIdentitySkipped ==
    \A l \in listed :
        now - l.create_date < unused_access_age
            => /\ l.arn \notin called
               /\ l.arn # identity.arn
               /\ \A i \in DOMAIN result : result[i].resource # l.arn
               /\ \A i \in DOMAIN outcome.value : outcome.value[i].resource # l.arn

\* a run that ended well, skipped a young identity and has findings for an old one
C9_Witness ==
    /\ entry = "analyze"
    /\ pc = "done"
    /\ outcome.kind = "ok"
    /\ outcome.value # <<>>
    /\ clock > now
    /\ \E l \in listed : now - l.create_date < unused_access_age
    /\ \E l \in listed : l.arn \in called

\* C10: the enumeration sends as marker the marker of the page before (none for
\* the first page), goes on exactly while pages are truncated, and its vector is
\* the pages' identities in order.
RECURSIVE Concat(_)
Concat(ps) == IF ps = <<>> THEN <<>> ELSE ps[1].items \o Concat(Tail(ps))

C10_Pagination ==
    /\ \A i \in DOMAIN pages :
          pages[i].sent = IF i = 1 THEN None ELSE pages[i - 1].marker
    /\ \A i \in 1..(Len(pages) - 1) : pages[i].is_truncated
    /\ pc \in {"list_users", "list_roles"}
            => /\ pages # <<>> => pages[Len(pages)].is_truncated
               /\ next_marker = IF pages = <<>> THEN None ELSE pages[Len(pages)].marker
    /\ pc \in {"user_loop", "role_loop"} /\ pages # <<>>
            => ~pages[Len(pages)].is_truncated
    /\ pc \in {"list_users", "user_loop"} /\ pages # <<>> => users = Concat(pages)
    /\ pc \in {"list_roles", "role_loop"} /\ pages # <<>> => roles = Concat(pages)

\* two pages of users, one identity each, the first page with a marker
C10_Witness ==
    /\ pc = "user_loop"
    /\ Len(pages) = 2
    /\ pages[1].marker # None
    /\ Len(users) = 2
    /\ users[1].arn # users[2].arn

====
